---- MODULE Spec2Model ----
(***************************************************************************)
(* FinanceFlow (MeinFinanztool): the IndexedDB store with its session      *)
(* start (seed, recurring-rule materialization, data migrations), the      *)
(* App's action handlers with their undo stack, and the Dashboard's        *)
(* balance calculation and day-by-day simulations.                         *)
(*                                                                         *)
(* Money is counted in cents.  A date string 'YYYY-MM-DD' is the record    *)
(* [y, m, d]; an instant (a JS Date) is a number of hours since            *)
(* 1970-01-01T00:00Z.  The fields note, method, createdAt and frequency    *)
(* of the records are never read by the logic modelled here and are left   *)
(* out.  recurringId = NoId stands for an absent recurringId.              *)
(***************************************************************************)
EXTENDS Integers, Sequences, FiniteSets, TLC

VARIABLES
    txStore,         \* object store 'transactions' (keyPath id)
    ruleStore,       \* object store 'recurring_rules' (keyPath id)
    transactions,    \* App state: transactions (last refreshData)
    recurringRules,  \* App state: recurringRules (last refreshData)
    undoStack,       \* App state: undoStack (each step with the store as it was before)
    pc,              \* position of the session: init()'s awaits, then "ready"
    simDate,         \* db.ts: the date the store takes as "now" (SIM_DATE)
    today,           \* the wall clock's local date (new Date() in the Dashboard)
    nextId,          \* source of fresh ids (crypto.randomUUID)
    userOps,         \* number of user actions taken so far
    session,         \* number of the page load
    lastPass,        \* what the last step was and which transactions it created
    settingsStatus,  \* Settings state: status (the outcome shown after an import)
    inits,           \* the init() calls under way, each with its position and locals
    simIn,           \* Dashboard: which simulation runs, potConfigs, forecastDate, clock
    sim,             \* Dashboard: the locals of the simulation's day loop and its result
    ghost,           \* what the walked days did, recorded for the properties
    potStore         \* the stored budget overrides (PotConfig), the Dashboard's potConfigs

storeVars == <<txStore, ruleStore, transactions, recurringRules, undoStack, pc,
               simDate, today, nextId, userOps, session, lastPass, settingsStatus, inits>>
simVars == <<simIn, sim, ghost, potStore>>
vars == <<storeVars, simVars>>

(***************************************************************************)
(* Bounds of the model.                                                    *)
(***************************************************************************)
MaxUserOps == 2
MaxSessions == 2

NoId == 0

(***************************************************************************)
(* The JS Date arithmetic the code relies on.                              *)
(***************************************************************************)
\* new Date(y, m-1, d): the day count since 1970-01-01 of a civil date; d and m
\* may lie outside the month and the year (day 0 is the last day of the month before)
MonthNorm(y, m) == [y |-> y + ((m - 1) \div 12), m |-> ((m - 1) % 12) + 1]

DaysFromCivil(y, m, d) ==
    LET yy  == IF m <= 2 THEN y - 1 ELSE y
        era == yy \div 400
        yoe == yy - era * 400
        mp  == IF m > 2 THEN m - 3 ELSE m + 9
        doy == ((153 * mp + 2) \div 5) + d - 1
        doe == yoe * 365 + (yoe \div 4) - (yoe \div 100) + doy
    IN  era * 146097 + doe - 719468

\* getFullYear / getMonth+1 / getDate of a day count
CivilFromDays(z) ==
    LET zz  == z + 719468
        era == zz \div 146097
        doe == zz - era * 146097
        yoe == (doe - (doe \div 1460) + (doe \div 36524) - (doe \div 146096)) \div 365
        doy == doe - (365 * yoe + (yoe \div 4) - (yoe \div 100))
        mp  == (5 * doy + 2) \div 153
        dd  == doy - ((153 * mp + 2) \div 5) + 1
        mm  == IF mp < 10 THEN mp + 3 ELSE mp - 9
    IN  [y |-> yoe + era * 400 + (IF mm <= 2 THEN 1 ELSE 0), m |-> mm, d |-> dd]

\* new Date(year, monthIndex, day) with monthIndex = m - 1, normalised
JSDate(y, m, d) ==
    LET n == MonthNorm(y, m) IN CivilFromDays(DaysFromCivil(n.y, n.m, 1) + d - 1)

\* getDay(): 0 = Sunday ... 6 = Saturday
GetDay(date) == (DaysFromCivil(date.y, date.m, date.d) + 4) % 7

\* d.setDate(d.getDate() + n)
AddDays(date, n) == CivilFromDays(DaysFromCivil(date.y, date.m, date.d) + n)

\* `${getFullYear()}-${String(getMonth() + 1).padStart(2, '0')}`
MonthStr(date) == [y |-> date.y, m |-> date.m]

\* dateString.startsWith(monthStr)
StartsWith(date, monthStr) == date.y = monthStr.y /\ date.m = monthStr.m

\* order of two date strings (as new Date(a).getTime() - new Date(b).getTime())
DateLess(a, b) == DaysFromCivil(a.y, a.m, a.d) < DaysFromCivil(b.y, b.m, b.d)

Date(y, m, d) == [y |-> y, m |-> m, d |-> d]

Abs(x) == IF x < 0 THEN -x ELSE x
Min(a, b) == IF a < b THEN a ELSE b

(***************************************************************************)
(* The object stores: add fails on an existing key, put replaces.          *)
(***************************************************************************)
Ids(store) == {r.id : r \in store}

StoreCanAdd(store, rec) == rec.id \notin Ids(store)

StoreAdd(store, rec) == store \cup {rec}

StorePut(store, rec) == {r \in store : r.id # rec.id} \cup {rec}

StoreDelete(store, id) == {r \in store : r.id # id}

(***************************************************************************)
(* Records.                                                                *)
(***************************************************************************)
Tx(id, date, amount, type, category, account, status, isRecurring, recurringId) ==
    [id |-> id, date |-> date, amount |-> amount, type |-> type,
     category |-> category, account |-> account, status |-> status,
     isRecurring |-> isRecurring, recurringId |-> recurringId]

Rule(id, type, category, amount, account, dayOfMonth, active) ==
    [id |-> id, type |-> type, category |-> category, amount |-> amount,
     account |-> account, dayOfMonth |-> dayOfMonth, active |-> active]

\* signed contribution of a transaction or a rule
Signed(r) == IF r.type = "income" THEN r.amount ELSE -r.amount

RECURSIVE SumSigned(_)
SumSigned(S) ==
    IF S = {} THEN 0
    ELSE LET r == CHOOSE x \in S : TRUE IN Signed(r) + SumSigned(S \ {r})

(***************************************************************************)
(* db.ts: the fixed simulation date, the seed and the policy tables that   *)
(* the code writes inline.                                                 *)
(***************************************************************************)
SIM_DATE == Date(2025, 11, 17)

\* seedInitialRules: the five seed transactions, dated in SIM_DATE's month
SeedTransactions(now, base) ==
    { Tx(base,     Date(now.y, now.m, 1), 110936, "expense", "Startsaldo",    "bank", "completed", FALSE, NoId),
      Tx(base + 1, Date(now.y, now.m, 1),  45000, "income",  "Bargeld-Start", "cash", "completed", FALSE, NoId),
      Tx(base + 2, Date(now.y, now.m, 2),   9500, "expense", "Wochenende",    "cash", "completed", FALSE, NoId),
      Tx(base + 3, Date(now.y, now.m, 3),  12000, "expense", "Wochentage",    "cash", "completed", FALSE, NoId),
      Tx(base + 4, Date(now.y, now.m, 4),   3500, "expense", "Rauchen",       "cash", "completed", FALSE, NoId) }

\* seedInitialRules: initialRules, in the order of the source (umlauts written ue)
InitialRules ==
    << Rule(NoId, "income",  "Buergergeld",        36300, "bank", 28, TRUE),
       Rule(NoId, "income",  "Gehalt Reporter",   17089, "bank", 28, TRUE),
       Rule(NoId, "income",  "Gehalt TEDi",       35000, "bank", 15, TRUE),
       Rule(NoId, "expense", "Abgabe Mama",       22700, "bank",  1, TRUE),
       Rule(NoId, "expense", "O2 Vertrag",         5900, "bank", 28, TRUE),
       Rule(NoId, "expense", "iPhone 13 Pro",      2625, "bank",  1, TRUE),
       Rule(NoId, "expense", "iPhone 16 Pro",      3700, "bank",  1, TRUE),
       Rule(NoId, "expense", "Spotify",            1099, "bank", 28, TRUE),
       Rule(NoId, "expense", "Entgeltabrechnung",   995, "bank", 28, TRUE),
       Rule(NoId, "expense", "Joyn",                699, "bank", 15, TRUE),
       Rule(NoId, "expense", "RTL PLUS",            799, "bank", 21, TRUE),
       Rule(NoId, "expense", "Versicherung",       4000, "bank", 15, FALSE),
       Rule(NoId, "expense", "Rueckzahlung Mama",   5000, "bank",  1, FALSE) >>

SeedRules(base) ==
    { [InitialRules[i] EXCEPT !.id = base + i - 1] : i \in 1..Len(InitialRules) }

\* processRecurringRules: categories created as completed
PrePaidCategories == {"Abgabe Mama", "iPhone 13 Pro", "iPhone 16 Pro"}

\* processRecurringRules: the rule/month pair that is skipped
Suppressed(category, monthStr) ==
    category = "Gehalt TEDi" /\ monthStr = [y |-> 2025, m |-> 11]

(***************************************************************************)
(* db.ts, processRecurringRules: the materialization pass.                 *)
(***************************************************************************)
\* mutant: the day of the rule, not clamped to the month
TargetDayUnclamped(rule, now) == rule.dayOfMonth

\* Math.min(rule.dayOfMonth, new Date(now.getFullYear(), now.getMonth() + 1, 0).getDate())
TargetDay(rule, now) == Min(rule.dayOfMonth, JSDate(now.y, now.m + 1, 0).d)

\* mutant: the existence check compares the transaction's own id with the rule's
ExistsInstanceById(rule, allTx, currentMonthStr) ==
    \E tx \in allTx : tx.id = rule.id /\ StartsWith(tx.date, currentMonthStr)

\* allTx.some(tx => tx.recurringId === rule.id && tx.date.startsWith(currentMonthStr))
ExistsInstance(rule, allTx, currentMonthStr) ==
    \E tx \in allTx : tx.recurringId = rule.id /\ StartsWith(tx.date, currentMonthStr)

\* the rules of the loop that reach the insert
NeedsInstance(rules, allTx, now) ==
    { rule \in rules :
        /\ rule.active
        /\ ~Suppressed(rule.category, MonthStr(now))
        /\ ~ExistsInstance(rule, allTx, MonthStr(now)) }

\* mutant: every instance is created pending
NewInstanceAlwaysPending(rule, now, id) ==
    Tx(id, Date(now.y, now.m, TargetDay(rule, now)), rule.amount, rule.type,
       rule.category, rule.account, "pending", TRUE, rule.id)

\* newTx of the loop body
NewInstance(rule, now, id) ==
    Tx(id, Date(now.y, now.m, TargetDay(rule, now)), rule.amount, rule.type,
       rule.category, rule.account,
       IF rule.category \in PrePaidCategories THEN "completed" ELSE "pending",
       TRUE, rule.id)

\* the transactions one pass adds; fresh ids are handed out in the order of the loop
ProcessCreates(rules, allTx, now, base) ==
    LET need == NeedsInstance(rules, allTx, now)
    IN  { NewInstance(rule, now, base + Cardinality({q \in need : q.id < rule.id})) :
            rule \in need }

(***************************************************************************)
(* db.ts, runMigrations.                                                   *)
(***************************************************************************)
TARGET_BALANCE == -139961

None == [id |-> NoId]

\* array.find on the list getAllTransactions returns (sorted by date, latest first;
\* the order among equal dates is the store's key order, which is random): the
\* records that can be the one found, or None
FindFirst(S) ==
    IF S = {} THEN {None}
    ELSE { t \in S : \A u \in S : ~DateLess(t.date, u.date) }

\* step 1: Joyn and RTL PLUS of 2025-11 are set to 0 and completed
BillsToZero(txs) ==
    { t \in txs : /\ t.category \in {"Joyn", "RTL PLUS"}
                  /\ StartsWith(t.date, [y |-> 2025, m |-> 11])
                  /\ t.amount > 0 }

ZeroBills(txs) ==
    { IF t \in BillsToZero(txs) THEN [t EXCEPT !.amount = 0, !.status = "completed"] ELSE t :
        t \in txs }

\* step 2: the Geschenke transaction of 2025-11, moved to the 29th and unlinked, or created
GiftCandidates(txs) ==
    { t \in txs : t.category = "Geschenke" /\ StartsWith(t.date, [y |-> 2025, m |-> 11]) }

FixGift(txs, giftTx, id) ==
    IF giftTx # None
    THEN StorePut(txs, [giftTx EXCEPT !.date = Date(2025, 11, 29), !.isRecurring = FALSE,
                                      !.recurringId = NoId])
    ELSE IF \E t \in txs : t.category = "Geschenke" /\ t.date = Date(2025, 11, 29)
    THEN txs
    ELSE StoreAdd(txs, Tx(id, Date(2025, 11, 29), 2500, "expense", "Geschenke", "bank",
                          "pending", FALSE, NoId))

\* step 5: the refund of April 2026
AddRefund(txs, id) ==
    IF \E t \in txs : t.category = "Rueckzahlung Genossenschaft"
                      /\ StartsWith(t.date, [y |-> 2026, m |-> 4])
    THEN txs
    ELSE StoreAdd(txs, Tx(id, Date(2026, 4, 1), 75000, "income",
                          "Rueckzahlung Genossenschaft", "bank", "pending", FALSE, NoId))

\* step 4: Startsaldo is set so that the completed bank transactions sum to the target
ForceBalance(txs, startTx) ==
    IF startTx = None THEN txs
    ELSE LET currentBalance ==
                 SumSigned({ t \in txs : /\ t.status = "completed"
                                         /\ t.account = "bank"
                                         /\ t.id # startTx.id })
             neededStartNet == TARGET_BALANCE - currentBalance
             newType   == IF neededStartNet >= 0 THEN "income" ELSE "expense"
             newAmount == Abs(neededStartNet)
         IN  IF startTx.amount # newAmount \/ startTx.type # newType
             THEN StorePut(txs, [startTx EXCEPT !.amount = newAmount, !.type = newType,
                                                !.status = "completed"])
             ELSE txs

\* the first rule of category Geschenke is deleted
GiftRules(rules) == { r \in rules : r.category = "Geschenke" }

(***************************************************************************)
(* Inputs of the user actions.                                             *)
(***************************************************************************)
FormCategories == {"Miete"}
FormAmounts == {10000}
FormTypes == {"expense"}
FormDates == {Date(2025, 11, 20), Date(2025, 12, 31)}
EditAmounts == {0}
EditDates == {Date(2025, 11, 10), Date(2025, 12, 10)}
\* the rows of the transaction list the user acts on
RowCategories == {"Startsaldo", "Buergergeld", "Abgabe Mama", "Miete"}
UserRows(list) == { t \in list : t.category \in RowCategories }

(***************************************************************************)
(* Session start: DBService.init and the App's init effect.                *)
(***************************************************************************)
\* Settings has shown no status, no init() is under way, no simulation is looked at
NoStatus == [type |-> "none", timer |-> FALSE]
NoInits == <<>>

NoSimulation ==
    /\ settingsStatus = NoStatus
    /\ inits = NoInits
    /\ simIn = [kind |-> "none"]
    /\ sim = [pc |-> "idle"]
    /\ ghost = [on |-> FALSE]
    /\ potStore = {}

Init ==
    /\ txStore = {}
    /\ ruleStore = {}
    /\ transactions = {}
    /\ recurringRules = {}
    /\ undoStack = <<>>
    /\ pc = "start"
    /\ simDate = SIM_DATE
    /\ today = SIM_DATE
    /\ nextId = 1
    /\ userOps = 0
    /\ session = 1
    /\ lastPass = [op |-> "open", created |-> {}]
    /\ NoSimulation

\* await this.seedInitialRules()
SeedInitialRules ==
    /\ pc = "start"
    /\ pc' = "seeded"
    /\ IF Cardinality(ruleStore) > 0
       THEN UNCHANGED <<txStore, ruleStore, nextId>>
       ELSE /\ txStore' = txStore \cup SeedTransactions(simDate, nextId)
            /\ ruleStore' = SeedRules(nextId + 5)
            /\ nextId' = nextId + 5 + Len(InitialRules)
    /\ lastPass' = [op |-> "seed", created |-> {}]
    /\ UNCHANGED <<transactions, recurringRules, undoStack, simDate, today, userOps, session>>
    /\ UNCHANGED <<settingsStatus, inits, simVars>>

\* await this.processRecurringRules()
ProcessRecurringRules ==
    /\ pc = "seeded"
    /\ pc' = "processed"
    /\ LET created == ProcessCreates(ruleStore, txStore, simDate, nextId)
       IN  /\ txStore' = txStore \cup created
           /\ nextId' = nextId + Cardinality(created)
           /\ lastPass' = [op |-> "process", created |-> Ids(created)]
    /\ UNCHANGED <<ruleStore, transactions, recurringRules, undoStack, simDate, today,
                   userOps, session>>
    /\ UNCHANGED <<settingsStatus, inits, simVars>>

\* await this.runMigrations(); resolve(); then the App's refreshData()
RunMigrations ==
    /\ pc = "processed"
    /\ pc' = "ready"
    /\ \E giftRule \in (IF GiftRules(ruleStore) = {} THEN {None} ELSE GiftRules(ruleStore)) :
         ruleStore' = IF giftRule = None THEN ruleStore ELSE StoreDelete(ruleStore, giftRule.id)
    /\ LET txs1 == ZeroBills(txStore)
       IN  \E giftTx \in FindFirst(GiftCandidates(txs1)) :
             LET txs2 == FixGift(txs1, giftTx, nextId)
                 id2  == nextId + Cardinality(txs2) - Cardinality(txs1)
                 txs3 == AddRefund(txs2, id2)
                 id3  == id2 + Cardinality(txs3) - Cardinality(txs2)
             IN  \E startTx \in FindFirst({ t \in txs3 : t.category = "Startsaldo" }) :
                   /\ txStore' = ForceBalance(txs3, startTx)
                   /\ nextId' = id3
    /\ transactions' = txStore'
    /\ recurringRules' = ruleStore'
    /\ lastPass' = [op |-> "migrate", created |-> {}]
    /\ UNCHANGED <<undoStack, simDate, today, userOps, session>>
    /\ UNCHANGED <<settingsStatus, inits, simVars>>

\* the page is loaded again, the same day or a month later: the App's state starts
\* empty and init() runs again
Reload ==
    /\ pc = "ready"
    /\ session < MaxSessions
    /\ session' = session + 1
    /\ pc' = "start"
    /\ today' \in {today, JSDate(today.y, today.m + 1, today.d)}
    /\ transactions' = {}
    /\ recurringRules' = {}
    /\ undoStack' = <<>>
    /\ lastPass' = [op |-> "open", created |-> {}]
    /\ UNCHANGED <<txStore, ruleStore, simDate, nextId, userOps>>
    /\ UNCHANGED <<settingsStatus, inits, simVars>>

(***************************************************************************)
(* App.tsx: the action handlers and the undo stack.  Every handler ends    *)
(* with refreshData().                                                     *)
(***************************************************************************)
Refresh == transactions' = txStore' /\ recurringRules' = ruleStore'

UserStep(op) ==
    /\ pc = "ready"
    /\ userOps < MaxUserOps
    /\ userOps' = userOps + 1
    /\ lastPass' = [op |-> op, created |-> {}]
    /\ UNCHANGED <<pc, simDate, today, session>>
    /\ UNCHANGED <<settingsStatus, inits, simVars>>

\* TransactionForm.handleSubmit: dayOfMonth of the paired rule
FormDayOfMonth(date) == date.d

\* handleAddTransaction(txData, ruleData), called by TransactionForm.handleSubmit
\* (and, without a rule, by the Dashboard's handlePotSubmit)
HandleAddTransaction ==
    \E amount \in FormAmounts, type \in FormTypes, category \in FormCategories,
       date \in FormDates, account \in {"bank", "cash"}, isRecurring \in BOOLEAN :
      LET ruleId  == nextId + 1
          newRule == Rule(ruleId, type, category, amount, account, FormDayOfMonth(date), TRUE)
          newTx   == Tx(nextId, date, amount, type, category, account, "completed",
                        isRecurring, IF isRecurring THEN ruleId ELSE NoId)
      IN  /\ UserStep("add")
          /\ ruleStore' = IF isRecurring THEN StoreAdd(ruleStore, newRule) ELSE ruleStore
          /\ txStore' = StoreAdd(txStore, newTx)
          /\ nextId' = nextId + (IF isRecurring THEN 2 ELSE 1)
          /\ Refresh
          /\ undoStack' = Append(undoStack,
                 [kind |-> "add", tx |-> newTx,
                  rule |-> IF isRecurring THEN newRule ELSE None, before |-> txStore])

\* handleUpdateTransaction(updatedTx)
HandleUpdateTransaction(updatedTx) ==
    /\ \E oldTx \in transactions :
         /\ oldTx.id = updatedTx.id
         /\ txStore' = StorePut(txStore, updatedTx)
         /\ undoStack' = Append(undoStack, [kind |-> "update", tx |-> oldTx, rule |-> None,
                                        before |-> txStore])
    /\ UNCHANGED <<ruleStore, nextId>>
    /\ Refresh

\* TransactionList.toggleStatus
ToggleStatus ==
    \E tx \in UserRows(transactions) :
      /\ UserStep("toggle")
      /\ HandleUpdateTransaction(
             [tx EXCEPT !.status = IF tx.status = "completed" THEN "pending" ELSE "completed"])

\* TransactionList.saveEdit: the amount and the date of the edit fields; the user
\* changes one of the two
SaveEdit ==
    \E tx \in UserRows(transactions) :
      \E num \in {tx.amount} \cup EditAmounts, editDate \in {tx.date} \cup EditDates :
        /\ (num = tx.amount) # (editDate = tx.date)
        /\ UserStep("edit")
        /\ HandleUpdateTransaction([tx EXCEPT !.amount = num, !.date = editDate])

\* handleDeleteTransaction(id), the confirm dialog accepted
HandleDeleteTransaction ==
    \E txToDelete \in UserRows(transactions) :
      /\ UserStep("delete")
      /\ txStore' = StoreDelete(txStore, txToDelete.id)
      /\ undoStack' = Append(undoStack, [kind |-> "delete", tx |-> txToDelete, rule |-> None,
                                    before |-> txStore])
      /\ UNCHANGED <<ruleStore, nextId>>
      /\ Refresh

\* Dashboard.toggleDebtRule(active) -> handleUpdateRule
ToggleDebtRule ==
    \E mamaDebtRule \in { r \in recurringRules : r.category = "Rueckzahlung Mama" },
       active \in BOOLEAN, debtInstallment \in {5000} :
      /\ UserStep("rule")
      /\ ruleStore' = StorePut(ruleStore,
             [mamaDebtRule EXCEPT !.active = active, !.amount = debtInstallment])
      /\ undoStack' = Append(undoStack, [kind |-> "rule", tx |-> None, rule |-> mamaDebtRule,
                                    before |-> txStore])
      /\ UNCHANGED <<txStore, nextId>>
      /\ Refresh

\* what the undo step's closure does to the stores; an add of an existing key fails
UndoFails(step) == step.kind = "delete" /\ ~StoreCanAdd(txStore, step.tx)

UndoTx(step) ==
    CASE step.kind = "add"    -> StoreDelete(txStore, step.tx.id)
      [] step.kind = "update" -> StorePut(txStore, step.tx)
      [] step.kind = "delete" -> StoreAdd(txStore, step.tx)
      [] OTHER                -> txStore

UndoRule(step) ==
    CASE step.kind = "add" /\ step.rule # None
                              -> StorePut(ruleStore, [step.rule EXCEPT !.active = FALSE])
      [] step.kind = "rule"   -> StorePut(ruleStore, step.rule)
      [] OTHER                -> ruleStore

\* handleUndo
HandleUndo ==
    /\ pc = "ready"
    /\ Len(undoStack) > 0
    /\ LET lastStep == undoStack[Len(undoStack)]
       IN  IF UndoFails(lastStep)
           THEN UNCHANGED <<txStore, ruleStore, transactions, recurringRules, undoStack>>
           ELSE /\ txStore' = UndoTx(lastStep)
                /\ ruleStore' = UndoRule(lastStep)
                /\ undoStack' = SubSeq(undoStack, 1, Len(undoStack) - 1)
                /\ Refresh
    /\ lastPass' = [op |-> "undo", created |-> {}]
    /\ UNCHANGED <<pc, simDate, today, nextId, userOps, session>>
    /\ UNCHANGED <<settingsStatus, inits, simVars>>

(***************************************************************************)
(* Settings.tsx: export and import of the transactions.                    *)
(***************************************************************************)
\* JSON.stringify of one transaction: a property that is undefined is left out
ToJSON(tx) ==
    IF tx.recurringId = NoId THEN [f \in DOMAIN tx \ {"recurringId"} |-> tx[f]] ELSE tx

\* an item of the parsed file as the store holds it: a property that is absent
\* reads as undefined
FromJSON(item) ==
    IF "recurringId" \in DOMAIN item THEN item
    ELSE Tx(item.id, item.date, item.amount, item.type, item.category, item.account,
            item.status, item.isRecurring, NoId)

\* the list getAllTransactions returns: latest date first
RECURSIVE ListOf(_)
ListOf(S) ==
    IF S = {} THEN <<>>
    ELSE LET t == CHOOSE x \in S : \A u \in S : ~DateLess(x.date, u.date)
         IN  <<t>> \o ListOf(S \ {t})

\* handleExport: JSON.stringify(transactions), read back by JSON.parse
ExportJSON(list) ==
    LET items == ListOf(list)
    IN  [isArray |-> TRUE, items |-> [i \in 1..Len(items) |-> ToJSON(items[i])]]

\* three transactions brought in by an import: two completed, one pending
ImportedStore ==
    { Tx(101, Date(2025, 11, 3),  100000, "income",  "Gehalt", "bank", "completed", FALSE, NoId),
      Tx(102, Date(2025, 11, 5),   30000, "expense", "Miete",  "bank", "completed", FALSE, NoId),
      Tx(103, Date(2025, 11, 10),  20000, "expense", "Strom",  "bank", "pending",   FALSE, NoId) }

\* the files the user picks: a JSON object, the file of an export just made, a
\* backup of three transactions, that backup with its first record once more at the
\* end, and that backup with the id of its second record missing
ImportSources == {"object", "export", "file", "duplicate", "noKey"}

WithoutKey(item) == [f \in DOMAIN item \ {"id"} |-> item[f]]

FileContent(src) ==
    LET backup == ExportJSON(ImportedStore)
    IN  CASE src = "object"    -> [isArray |-> FALSE, items |-> <<>>]
          [] src = "export"    -> ExportJSON(transactions)
          [] src = "duplicate" -> [backup EXCEPT !.items = Append(@, @[1])]
          [] src = "noKey"     -> [backup EXCEPT !.items[2] = WithoutKey(@)]
          [] OTHER             -> backup

\* mutant: the root of the file is not looked at
IsArrayAlways(json) == TRUE

\* Array.isArray(json)
IsArray(json) == json.isArray

\* store.add(item) throws when the item has no value at the key path
HasKey(item) == "id" \in DOMAIN item

\* the adds that are requested: the loop ends at the first add that throws
Requested(json) ==
    LET bad == { i \in 1..Len(json.items) : ~HasKey(json.items[i]) }
    IN  IF bad = {} THEN Len(json.items)
        ELSE (CHOOSE i \in bad : \A j \in bad : i <= j) - 1

\* a requested add meets a key that an earlier add of the same transaction has
\* written: the request fails and the transaction aborts
Aborts(json) ==
    \E i, j \in 1..Requested(json) : i < j /\ json.items[i].id = json.items[j].id

\* importData rejects: the data cannot be iterated, an add throws, or the
\* transaction aborts
ImportFails(json) ==
    \/ ~json.isArray
    \/ Requested(json) < Len(json.items)
    \/ Aborts(json)

\* mutant: the last item of the data is not added
ImportDataDropsLast(store, json) ==
    { FromJSON(json.items[i]) : i \in 1..(Len(json.items) - 1) }

\* importData(data): store.clear(), then store.add(item) for every item, in one
\* IndexedDB transaction.  Data that is not iterable, or an add that throws, ends the
\* loop after the clear was requested: what was requested until then commits; an
\* aborted transaction leaves the store as it was
ImportData(store, json) ==
    IF ~json.isArray THEN {}
    ELSE IF Aborts(json) THEN store
    ELSE { FromJSON(json.items[i]) : i \in 1..Requested(json) }

\* handleFileChange, reader.onload: parse, check, onImport (handleImport: importData
\* and refreshData), setStatus
HandleFileChange ==
    \E src \in ImportSources :
      LET json    == FileContent(src)
          invoked == IsArray(json)
          ok      == invoked /\ ~ImportFails(json)
      IN  /\ pc = "ready"
          /\ userOps < MaxUserOps
          /\ userOps' = userOps + 1
          /\ txStore' = IF invoked THEN ImportData(txStore, json) ELSE txStore
          /\ transactions' = IF ok THEN txStore' ELSE transactions
          /\ recurringRules' = IF ok THEN ruleStore ELSE recurringRules
          /\ settingsStatus' = IF ok THEN [type |-> "success", timer |-> TRUE]
                               ELSE [type |-> "error", timer |-> settingsStatus.timer]
          /\ lastPass' = [op |-> "import", created |-> {}, src |-> src, invoked |-> invoked]
          /\ UNCHANGED <<ruleStore, undoStack, pc, simDate, today, nextId, session>>
          /\ UNCHANGED <<inits, simVars>>

\* setTimeout(() => setStatus(null), 3000)
ClearStatus ==
    /\ settingsStatus.timer
    /\ settingsStatus' = NoStatus
    /\ UNCHANGED <<txStore, ruleStore, transactions, recurringRules, undoStack, pc,
                   simDate, today, nextId, userOps, session, lastPass>>
    /\ UNCHANGED <<inits, simVars>>

Next ==
    \/ SeedInitialRules
    \/ ProcessRecurringRules
    \/ RunMigrations
    \/ Reload
    \/ HandleAddTransaction
    \/ ToggleStatus
    \/ SaveEdit
    \/ HandleDeleteTransaction
    \/ ToggleDebtRule
    \/ HandleUndo
    \/ HandleFileChange
    \/ ClearStatus

Spec == Init /\ [][Next]_vars

(***************************************************************************)
(* Dashboard.tsx, stats: the actual balances.                              *)
(***************************************************************************)
\* mutant: the status is not looked at
CountsAsActualAnyStatus(tx) == TRUE

\* if (tx.status === 'completed')
CountsAsActual(tx) == tx.status = "completed"

\* bankBalance of stats
BankBalance(txs) == SumSigned({ tx \in txs : CountsAsActual(tx) /\ tx.account = "bank" })

\* cashBalance of stats
CashBalance(txs) == SumSigned({ tx \in txs : CountsAsActual(tx) /\ tx.account # "bank" })

(***************************************************************************)
(* The materializer on its own: one rule in the rule store, no             *)
(* transactions, and the reference date of the pass drawn from several     *)
(* months.                                                                 *)
(***************************************************************************)
MatDates ==
    { Date(2025, 11, 17), Date(2024, 2, 10), Date(2025, 2, 10), Date(2026, 4, 30),
      Date(2025, 12, 31), Date(2100, 2, 1) }
MatCategories == {"Rent", "Abgabe Mama", "Gehalt TEDi"}
MatDays == {1, 15, 28, 29, 30, 31}
MatRules ==
    { Rule(1, type, category, 50000, account, day, active) :
        type \in {"income", "expense"}, category \in MatCategories,
        account \in {"bank", "cash"}, day \in MatDays, active \in BOOLEAN }

MatInit ==
    /\ txStore = {}
    /\ \E rule \in MatRules : ruleStore = {rule}
    /\ transactions = {}
    /\ recurringRules = {}
    /\ undoStack = <<>>
    /\ pc = "seeded"
    /\ simDate \in MatDates
    /\ today = simDate
    /\ nextId = 2
    /\ userOps = 0
    /\ session = 1
    /\ lastPass = [op |-> "open", created |-> {}]
    /\ NoSimulation

MatNext == ProcessRecurringRules

SpecMat == MatInit /\ [][MatNext]_vars

(***************************************************************************)
(* Dashboard.tsx: instants.  A Date is a number of hours since the epoch;  *)
(* off is the local time's offset from UTC in hours.                       *)
(***************************************************************************)
\* new Date(): the wall clock, at local date `date` and local hour `hour`
NowInstant(date, hour, off) == DaysFromCivil(date.y, date.m, date.d) * 24 + hour - off

\* new Date('YYYY-MM-DD'): midnight UTC of that date
ParseDateString(date) == DaysFromCivil(date.y, date.m, date.d) * 24

\* new Date(y, m, d) and setHours(0,0,0,0): local midnight of a local date
LocalMidnight(date, off) == DaysFromCivil(date.y, date.m, date.d) * 24 - off

\* toISOString().split('T')[0]: the UTC date of an instant
ToISODate(instant) == CivilFromDays(instant \div 24)

\* the local date of an instant (getFullYear, getMonth, getDate; Intl formatters)
LocalDate(instant, off) == CivilFromDays((instant + off) \div 24)

(***************************************************************************)
(* Dashboard.tsx: budget pots.  The limits are divided exactly (the        *)
(* inputs are multiples of 20 cents).                                      *)
(***************************************************************************)
DEFAULT_BUDGET_POTS ==
    { [id |-> "pot_420",   limit |->  5000, category |-> "420"],
      [id |-> "pot_we",    limit |-> 12000, category |-> "Wochenende"],
      [id |-> "pot_week",  limit |-> 12000, category |-> "Wochentage"],
      [id |-> "pot_smoke", limit |->  4000, category |-> "Rauchen"] }

PotIds == { p.id : p \in DEFAULT_BUDGET_POTS }

\* a PotConfig without a month is a default override
NoMonth == [y |-> 0, m |-> 0]

\* mutant: the default override is looked up before the override of the month
GetPotLimitDefaultFirst(potConfigs, potId, dateObj) ==
    LET monthStr == MonthStr(dateObj)
        specific == { c \in potConfigs : c.potId = potId /\ c.month = monthStr }
        def      == { c \in potConfigs : c.potId = potId /\ c.month = NoMonth }
        pots     == { p \in DEFAULT_BUDGET_POTS : p.id = potId }
    IN  IF def # {} THEN (CHOOSE c \in def : TRUE).limit
        ELSE IF specific # {} THEN (CHOOSE c \in specific : TRUE).limit
        ELSE IF pots # {} THEN (CHOOSE p \in pots : TRUE).limit
        ELSE 0

\* getPotLimit(potId, dateObj)
GetPotLimit(potConfigs, potId, dateObj) ==
    LET monthStr == MonthStr(dateObj)
        specific == { c \in potConfigs : c.potId = potId /\ c.month = monthStr }
        def      == { c \in potConfigs : c.potId = potId /\ c.month = NoMonth }
        pots     == { p \in DEFAULT_BUDGET_POTS : p.id = potId }
    IN  IF specific # {} THEN (CHOOSE c \in specific : TRUE).limit
        ELSE IF def # {} THEN (CHOOSE c \in def : TRUE).limit
        ELSE IF pots # {} THEN (CHOOSE p \in pots : TRUE).limit
        ELSE 0

\* the while loop of countWeekdaysInMonth, from day d on
RECURSIVE CountWeekdaysFrom(_, _, _)
CountWeekdaysFrom(d, month, dayIndex) ==
    IF d.m # month THEN 0
    ELSE (IF GetDay(d) = dayIndex THEN 1 ELSE 0) + CountWeekdaysFrom(AddDays(d, 1), month, dayIndex)

\* mutant: a month is taken to have four of each weekday
CountWeekdaysAlwaysFour(year, month, dayIndex) == 4

\* countWeekdaysInMonth(year, month, dayIndex), month counted from 1
CountWeekdaysInMonth(year, month, dayIndex) ==
    LET count == CountWeekdaysFrom(Date(year, month, 1), month, dayIndex)
    IN  IF count > 0 THEN count ELSE 1

\* the days on which the simulations draw a pot
IsTriggerDay(potId, d) ==
    CASE potId = "pot_420"   -> d.d = 1 \/ d.d = 15
      [] potId = "pot_we"    -> GetDay(d) = 5
      [] potId = "pot_week"  -> GetDay(d) = 1
      [] potId = "pot_smoke" -> d.d \in {1, 8, 15, 22}
      [] OTHER -> FALSE

\* what the simulations withdraw for a pot on day d
PotDraw(potConfigs, potId, d) ==
    IF ~IsTriggerDay(potId, d) THEN 0
    ELSE CASE potId = "pot_420"   -> GetPotLimit(potConfigs, potId, d) \div 2
           [] potId = "pot_we"    ->
                GetPotLimit(potConfigs, potId, d) \div CountWeekdaysInMonth(d.y, d.m, 5)
           [] potId = "pot_week"  ->
                GetPotLimit(potConfigs, potId, d) \div CountWeekdaysInMonth(d.y, d.m, 1)
           [] potId = "pot_smoke" -> GetPotLimit(potConfigs, potId, d) \div 4
           [] OTHER -> 0

PotDraws(potConfigs, d) ==
    PotDraw(potConfigs, "pot_420", d) + PotDraw(potConfigs, "pot_we", d)
    + PotDraw(potConfigs, "pot_week", d) + PotDraw(potConfigs, "pot_smoke", d)

\* the recurring rules applied on the simulated day d
RuleApplies(rule, d) ==
    /\ rule.active
    /\ rule.account = "bank"
    /\ rule.dayOfMonth = d.d
    /\ ~(rule.category = "Gehalt TEDi" /\ d.y = 2025 /\ d.m = 11)

AppliedRules(rules, d) == { rule \in rules : RuleApplies(rule, d) }

RulesSum(rules, d) == SumSigned(AppliedRules(rules, d))

(***************************************************************************)
(* Dashboard.tsx: the two simulations, one step per simulated day.  Here   *)
(* transactions and recurringRules are the Dashboard's props and today is  *)
(* the local date of its clock.                                            *)
(***************************************************************************)
SIMULATION_YEARS == 5
SIM_DAYS == 365 * SIMULATION_YEARS

NoInstant == -1
NoDate == [y |-> 0, m |-> 0, d |-> 0]
NoResult == [status |-> "none", date |-> "", stableDate |-> NoDate, month |-> NoMonth]

\* what DBService.init leaves in the two stores of a fresh browser
FirstSessionRules == { r \in SeedRules(6) : r.category # "Geschenke" }

FirstSessionStore ==
    LET t0      == SeedTransactions(SIM_DATE, 1)
        n1      == 6 + Len(InitialRules)
        created == ProcessCreates(SeedRules(6), t0, SIM_DATE, n1)
        n2      == n1 + Cardinality(created)
        txs1    == ZeroBills(t0 \cup created)
        giftTx  == CHOOSE g \in FindFirst(GiftCandidates(txs1)) : TRUE
        txs2    == FixGift(txs1, giftTx, n2)
        txs3    == AddRefund(txs2, n2 + 1)
        startTx == CHOOSE t \in FindFirst({ t \in txs3 : t.category = "Startsaldo" }) : TRUE
    IN  ForceBalance(txs3, startTx)

\* the fresh store after the user has added one-off transactions: two of later
\* months and one dated today (the form's default date)
PlannedStore ==
    FirstSessionStore \cup
    { Tx(201, Date(2025, 12, 31), 10000, "expense", "Miete",  "bank", "completed", FALSE, NoId),
      Tx(202, Date(2026, 1, 15),  50000, "income",  "Gehalt", "bank", "pending",   FALSE, NoId),
      Tx(203, Date(2025, 11, 17),  2000, "expense", "Essen",  "bank", "completed", FALSE, NoId) }

\* the fresh store after the user has added a monthly rent with the form, dated
\* 2025-12-31: handleAddTransaction stores the transaction and the paired rule
PairedRule == Rule(205, "expense", "Miete", 10000, "bank", FormDayOfMonth(Date(2025, 12, 31)), TRUE)

RecurringStore ==
    FirstSessionStore \cup
    { Tx(204, Date(2025, 12, 31), 10000, "expense", "Miete", "bank", "completed", TRUE,
         PairedRule.id) }

SimStores == {FirstSessionStore, ImportedStore, PlannedStore, RecurringStore}

\* the rules that go with a store
SimRulesOf(txs) ==
    FirstSessionRules \cup (IF \E tx \in txs : tx.recurringId = PairedRule.id
                            THEN {PairedRule} ELSE {})

\* the pot settings the Dashboard has loaded
SimPotConfigs ==
    { {},
      { [potId |-> "pot_we", limit |-> 100000, month |-> NoMonth] },
      { [potId |-> "pot_smoke", limit |-> 8000, month |-> [y |-> 2026, m |-> 1]],
        [potId |-> "pot_420",   limit |-> 6000, month |-> NoMonth] } }

\* the clock: the local hour and the offset of local time from UTC
SimHours == {0, 12}
SimOffsets == {-5, 0, 1}

\* useState initialiser of forecastDate: the month's last day, through toISOString
DefaultForecastDate(now, off) == ToISODate(LocalMidnight(JSDate(now.y, now.m + 1, 0), off))

\* the dates the user can set the forecast date to
SimForecastDates(now, off) ==
    {DefaultForecastDate(now, off), now, Date(2026, 2, 28), Date(2025, 10, 15)}

\* a forecast date more than five years ahead (tried with the pot settings untouched,
\* at noon)
SimFarForecastDates(potConfigs, hour) ==
    IF potConfigs = {} /\ hour = 12 THEN {Date(2031, 6, 30)} ELSE {}

\* the clock of a second run of the same simulation, at another time of the same day
TwinHour(hour) == CHOOSE h \in SimHours : h # hour
TwinNowOf(in) == NowInstant(today, TwinHour(in.hour), in.off)

NowOf(in) == NowInstant(today, in.hour, in.off)

\* what the walked day did to the pots, kept for the properties
GhostStart(simBalance, otherBalance) ==
    [on |-> TRUE, day |-> today, future |-> FALSE, whole |-> FALSE,
     rules |-> {}, oneOff |-> {}, other |-> otherBalance,
     last  |-> [p \in PotIds |-> 0],
     drawn |-> [p \in PotIds |-> 0],
     draws |-> [p \in PotIds |-> 0],
     anyNeg |-> simBalance < 0, tail |-> 0, twin |-> simBalance]

GhostStep(g, potConfigs, d, isFuture, simBalance, twinBalance, appliedRules, appliedTxs, otherBalance) ==
    LET first == d.d = 1
        last  == [p \in PotIds |-> IF isFuture THEN PotDraw(potConfigs, p, d) ELSE 0]
    IN  [on |-> TRUE, day |-> d, future |-> isFuture,
         rules |-> Ids(appliedRules), oneOff |-> Ids(appliedTxs), other |-> otherBalance,
         whole |-> IF first THEN isFuture ELSE g.whole,
         last  |-> last,
         drawn |-> [p \in PotIds |-> (IF first THEN 0 ELSE g.drawn[p]) + last[p]],
         draws |-> [p \in PotIds |-> (IF first THEN 0 ELSE g.draws[p])
                                      + (IF isFuture /\ IsTriggerDay(p, d) THEN 1 ELSE 0)],
         anyNeg |-> g.anyNeg \/ simBalance < 0,
         tail |-> IF simBalance < 0 THEN 0 ELSE g.tail + 1,
         twin |-> twinBalance]

\* permanentPositiveForecast: futureOneTimeMap
FutureOneTime(txs, now) ==
    { tx \in txs : ~tx.isRecurring /\ ParseDateString(tx.date) > now /\ tx.account = "bank" }

\* mutant: the first negative day is kept
UpdateLastNegativeKeepsFirst(simBalance, d, lastNegativeDate) ==
    IF simBalance < 0 /\ lastNegativeDate = NoInstant THEN d ELSE lastNegativeDate

\* if (simBalance < 0) lastNegativeDate = new Date(d)
UpdateLastNegative(simBalance, d, lastNegativeDate) ==
    IF simBalance < 0 THEN d ELSE lastNegativeDate

\* startSim: tomorrow, local midnight
StartSim == AddDays(today, 1)

\* futureOneTimeMap.get(dateStr)
PermOneTime(txs, d, now, off) ==
    { tx \in FutureOneTime(txs, now) : tx.date = ToISODate(LocalMidnight(d, off)) }

\* chartData: futureOneTimeTxs of day d
ChartOneTime(txs, d, off) ==
    { tx \in txs : /\ tx.date = ToISODate(LocalMidnight(d, off))
                   /\ tx.account = "bank"
                   /\ ~tx.isRecurring }

\* the body of the loop of permanentPositiveForecast: simBalance after day d
PermDay(txs, rules, potConfigs, simBalance, d, now, off) ==
    LET oneTimeTxs == PermOneTime(txs, d, now, off)
    IN  simBalance + RulesSum(rules, d) + SumSigned(oneTimeTxs) - PotDraws(potConfigs, d)

\* the body of the loop of chartData: runningBalance after day d
ChartDay(txs, rules, potConfigs, runningBalance, d, now, off) ==
    LET dateStr  == ToISODate(LocalMidnight(d, off))
        isFuture == LocalMidnight(d, off) > now
        dailyTxs == { tx \in txs : /\ tx.date = dateStr
                                   /\ tx.account = "bank"
                                   /\ tx.status = "completed" }
        futureOneTimeTxs == ChartOneTime(txs, d, off)
    IN  IF ~isFuture THEN runningBalance + SumSigned(dailyTxs)
        ELSE runningBalance + RulesSum(rules, d) + SumSigned(futureOneTimeTxs)
             - PotDraws(potConfigs, d)

\* chartData: the balance carried into the month
ChartOpening(txs, startDate, off) ==
    SumSigned({ tx \in txs : /\ tx.status = "completed"
                             /\ tx.account = "bank"
                             /\ ParseDateString(tx.date) < LocalMidnight(startDate, off) })

\* the loop of chartData from day d to day last: runningBalance after it
RECURSIVE ChartWalk(_, _, _, _, _, _, _, _)
ChartWalk(txs, rules, potConfigs, runningBalance, d, last, now, off) ==
    IF DateLess(last, d) THEN runningBalance
    ELSE ChartWalk(txs, rules, potConfigs,
                   ChartDay(txs, rules, potConfigs, runningBalance, d, now, off),
                   AddDays(d, 1), last, now, off)

\* the balance of the chart series at today's point
ChartToday(txs, rules, potConfigs, now, off) ==
    ChartWalk(txs, rules, potConfigs, ChartOpening(txs, Date(today.y, today.m, 1), off),
              Date(today.y, today.m, 1), today, now, off)

\* the Dashboard renders: the locals of one of the two simulations before its loop
SimInit ==
    /\ transactions \in SimStores
    /\ recurringRules = SimRulesOf(transactions)
    /\ txStore = transactions
    /\ ruleStore = recurringRules
    /\ undoStack = <<>>
    /\ pc = "ready"
    /\ simDate = SIM_DATE
    /\ today = SIM_DATE
    /\ nextId = 300
    /\ userOps = 0
    /\ session = 1
    /\ lastPass = [op |-> "refresh", created |-> {}]
    /\ settingsStatus = NoStatus
    /\ inits = NoInits
    /\ \E potConfigs \in SimPotConfigs, hour \in SimHours, off \in SimOffsets :
         \/ /\ simIn = [kind |-> "perm", potConfigs |-> potConfigs, hour |-> hour,
                        off |-> off, forecastDate |-> DefaultForecastDate(today, off)]
            /\ LET simBalance == BankBalance(transactions)
               IN  /\ sim = [pc |-> "loop", i |-> 0, d |-> StartSim,
                             balance |-> simBalance,
                             lastNegativeDate |-> IF simBalance < 0
                                                  THEN NowInstant(today, hour, off)
                                                  ELSE NoInstant,
                             projectedBalance |-> 0, result |-> NoResult]
                   /\ ghost = GhostStart(simBalance,
                                         ChartToday(transactions, recurringRules, potConfigs,
                                                    NowInstant(today, hour, off), off))
         \/ \E forecastDate \in SimForecastDates(today, off)
                                 \cup SimFarForecastDates(potConfigs, hour) :
              /\ simIn = [kind |-> "chart", potConfigs |-> potConfigs, hour |-> hour,
                          off |-> off, forecastDate |-> forecastDate]
              /\ LET startDate == Date(today.y, today.m, 1)
                     runningBalance == ChartOpening(transactions, startDate, off)
                 IN  /\ sim = [pc |-> "loop", i |-> 0, d |-> startDate,
                               balance |-> runningBalance,
                               lastNegativeDate |-> NoInstant,
                               projectedBalance |-> 0, result |-> NoResult]
                     /\ ghost = GhostStart(runningBalance, runningBalance)
    /\ potStore = simIn.potConfigs

\* one iteration of the loop of permanentPositiveForecast
PermStep ==
    /\ simIn.kind = "perm"
    /\ sim.pc = "loop"
    /\ sim.i < SIM_DAYS
    /\ LET d          == AddDays(StartSim, sim.i)
           simBalance == PermDay(transactions, recurringRules, simIn.potConfigs,
                                 sim.balance, d, NowOf(simIn), simIn.off)
           twinBalance == PermDay(transactions, recurringRules, simIn.potConfigs,
                                  ghost.twin, d, TwinNowOf(simIn), simIn.off)
       IN  /\ sim' = [sim EXCEPT !.i = sim.i + 1, !.d = d, !.balance = simBalance,
                        !.lastNegativeDate =
                            UpdateLastNegative(simBalance, LocalMidnight(d, simIn.off),
                                               sim.lastNegativeDate)]
           /\ ghost' = GhostStep(ghost, simIn.potConfigs, d, TRUE, simBalance, twinBalance,
                                  AppliedRules(recurringRules, d),
                                  PermOneTime(transactions, d, NowOf(simIn), simIn.off),
                                  ChartDay(transactions, recurringRules, simIn.potConfigs,
                                           ghost.other, d, NowOf(simIn), simIn.off))
    /\ UNCHANGED <<storeVars, simIn, potStore>>

\* after the loop: the result of permanentPositiveForecast
PermResult(lastNegativeDate, off) ==
    LET lastSimDay == LocalMidnight(AddDays(StartSim, SIM_DAYS - 1), off)
        stableDate == AddDays(LocalDate(lastNegativeDate, off), 1)
    IN  IF lastNegativeDate = NoInstant
        THEN [status |-> "positive", date |-> "Sofort", stableDate |-> NoDate, month |-> NoMonth]
        ELSE IF lastNegativeDate >= lastSimDay
        THEN [status |-> "impossible", date |-> "> 5 Jahre", stableDate |-> NoDate,
              month |-> NoMonth]
        ELSE [status |-> "future", date |-> "month year", stableDate |-> stableDate,
              month |-> MonthStr(stableDate)]

PermFinish ==
    /\ simIn.kind = "perm"
    /\ sim.pc = "loop"
    /\ sim.i >= SIM_DAYS
    /\ sim' = [sim EXCEPT !.pc = "done",
                          !.result = PermResult(sim.lastNegativeDate, simIn.off)]
    /\ UNCHANGED <<storeVars, simIn, ghost, potStore>>

\* one iteration of the loop of chartData; sim.i is data.length
ChartStep ==
    /\ simIn.kind = "chart"
    /\ sim.pc = "loop"
    /\ LocalMidnight(sim.d, simIn.off) <= ParseDateString(simIn.forecastDate)
    /\ LET d        == sim.d
           isFuture == LocalMidnight(d, simIn.off) > NowOf(simIn)
           runningBalance == ChartDay(transactions, recurringRules, simIn.potConfigs,
                                      sim.balance, d, NowOf(simIn), simIn.off)
           twinBalance == ChartDay(transactions, recurringRules, simIn.potConfigs,
                                   ghost.twin, d, TwinNowOf(simIn), simIn.off)
       IN  /\ sim' = [sim EXCEPT !.i = sim.i + 1, !.d = AddDays(d, 1),
                                 !.balance = runningBalance]
           /\ ghost' = GhostStep(ghost, simIn.potConfigs, d, isFuture, runningBalance,
                                  twinBalance,
                                  IF isFuture THEN AppliedRules(recurringRules, d) ELSE {},
                                  IF isFuture THEN ChartOneTime(transactions, d, simIn.off)
                                  ELSE {},
                                  runningBalance)
    /\ UNCHANGED <<storeVars, simIn, potStore>>

\* the loop of chartData ends; projectedBalance is derived from the series
ChartFinish ==
    /\ simIn.kind = "chart"
    /\ sim.pc = "loop"
    /\ ~(LocalMidnight(sim.d, simIn.off) <= ParseDateString(simIn.forecastDate))
    /\ sim' = [sim EXCEPT !.pc = "done",
                          !.projectedBalance = IF sim.i > 0 THEN sim.balance
                                               ELSE BankBalance(transactions)]
    /\ UNCHANGED <<storeVars, simIn, ghost, potStore>>

SimNext == PermStep \/ PermFinish \/ ChartStep \/ ChartFinish

SpecSim == SimInit /\ [][SimNext]_vars

(***************************************************************************)
(* Properties.                                                             *)
(***************************************************************************)
InstancesOf(ruleId, monthStr, txs) ==
    { t \in txs : t.recurringId = ruleId /\ StartsWith(t.date, monthStr) }

\* the calendar: the number of days of a month
IsLeapYear(y) == (y % 4 = 0 /\ y % 100 # 0) \/ y % 400 = 0

CalendarDays(y, m) ==
    IF m = 2 THEN (IF IsLeapYear(y) THEN 29 ELSE 28)
    ELSE IF m \in {4, 6, 9, 11} THEN 30 ELSE 31

\* C1: in every reachable state of the store there is, for every rule id and every
\* calendar month, at most one stored transaction with that recurringId dated in
\* that month.
C1_AtMostOneInstancePerRuleMonth ==
    \A t \in txStore :
        t.recurringId # NoId =>
            Cardinality(InstancesOf(t.recurringId, MonthStr(t.date), txStore)) <= 1

\* C2: materialization is idempotent: right after a materialization pass, with no
\* state change in between, a second pass creates no transaction.
C2_SecondPassCreatesNothing ==
    pc = "processed" => ProcessCreates(ruleStore, txStore, simDate, nextId) = {}

C2_Witness == pc = "processed" /\ lastPass.created # {}

\* C3: whenever init() completes in a session whose current calendar month is M,
\* every active rule that is not suppressed for M has exactly one stored
\* transaction with its id dated in M.
C3_OneInstanceInSessionMonth ==
    lastPass.op = "migrate" =>
        \A r \in ruleStore :
            (r.active /\ ~Suppressed(r.category, MonthStr(today))) =>
                Cardinality(InstancesOf(r.id, MonthStr(today), txStore)) = 1

\* C4: the actual balances depend only on completed transactions: removing a
\* pending transaction changes neither the actual bank nor the actual cash balance.
C4_PendingDoesNotCount ==
    \A p \in transactions :
        p.status = "pending" =>
            /\ BankBalance(transactions \ {p}) = BankBalance(transactions)
            /\ CashBalance(transactions \ {p}) = CashBalance(transactions)

C4_Witness ==
    \E p \in transactions, q \in transactions :
        /\ p.status = "pending" /\ p.amount > 0 /\ p.account = "bank"
        /\ q.status = "pending" /\ q.amount > 0 /\ q.account = "cash"

\* C6: a transaction dated in a calendar month later than the month of the
\* reference date contributes to no balance, whatever its status: removing it
\* changes neither the actual bank nor the actual cash balance.
LaterMonth(date, ref) == date.y > ref.y \/ (date.y = ref.y /\ date.m > ref.m)

C6_FutureMonthDoesNotCount ==
    \A t \in transactions :
        LaterMonth(t.date, today) =>
            /\ BankBalance(transactions \ {t}) = BankBalance(transactions)
            /\ CashBalance(transactions \ {t}) = CashBalance(transactions)

\* C7: the transaction materialized for a rule in the reference month is dated on
\* day min(rule.dayOfMonth, number of days of that month); a rule with dayOfMonth 31
\* materialized in February is dated the 28th, or the 29th in a leap year.
C7_TargetDayClamped ==
    pc = "processed" =>
        \A t \in txStore, r \in ruleStore :
            t.recurringId = r.id =>
                /\ t.date.y = simDate.y
                /\ t.date.m = simDate.m
                /\ t.date.d = IF r.dayOfMonth <= CalendarDays(simDate.y, simDate.m)
                              THEN r.dayOfMonth
                              ELSE CalendarDays(simDate.y, simDate.m)
                /\ (r.dayOfMonth = 31 /\ simDate.m = 2) =>
                       t.date.d = IF IsLeapYear(simDate.y) THEN 29 ELSE 28

C7_Witness ==
    /\ pc = "processed"
    /\ \E t \in txStore, r \in ruleStore :
         t.recurringId = r.id /\ r.dayOfMonth = 31 /\ t.date = Date(2024, 2, 29)
    /\ simDate = Date(2024, 2, 10)

\* what C8 says of the transaction created for a rule
CarriesRule(t, r) ==
    /\ t.type = r.type
    /\ t.category = r.category
    /\ t.amount = r.amount
    /\ t.account = r.account
    /\ t.isRecurring = TRUE
    /\ t.recurringId = r.id
    /\ t.status = IF r.category \in PrePaidCategories THEN "completed" ELSE "pending"

\* C8 as stated: materializing a single active rule with no existing transactions
\* yields exactly one transaction that carries the rule's type, category, amount
\* and account, is recurring with the rule's id, and is pending unless the rule's
\* category is an auto-complete category, in which case it is completed.
C8_Original ==
    pc = "processed" =>
        \A r \in ruleStore :
            r.active => \E t \in txStore : txStore = {t} /\ CarriesRule(t, r)

\* C8 as amended: the same for a single active rule that is not suppressed for the
\* reference month; a suppressed rule yields no transaction.
C8_SingleRuleMaterialized ==
    pc = "processed" =>
        \A r \in ruleStore :
            r.active =>
                IF Suppressed(r.category, MonthStr(simDate))
                THEN txStore = {}
                ELSE \E t \in txStore : txStore = {t} /\ CarriesRule(t, r)

C8_Witness ==
    /\ pc = "processed"
    /\ \E r \in ruleStore, t \in txStore :
         r.active /\ r.category \in PrePaidCategories /\ t.status = "completed"

\* C5: in forecast mode the reported bank balance is the sum of the signed amounts of
\* all bank transactions of the current period, whatever their status: when the
\* forecast date is not after today and every bank transaction is dated on or before
\* it, the projected balance is the sum over all bank transactions, pending ones
\* included (completed +1000, completed -300, pending -200 gives 500).
C5_ForecastCountsEveryStatus ==
    ( /\ simIn.kind = "chart"
      /\ sim.pc = "done"
      /\ sim.i > 0
      /\ ~DateLess(today, simIn.forecastDate)
      /\ \A t \in transactions : DateLess(t.date, simIn.forecastDate) )
    => sim.projectedBalance = SumSigned({ t \in transactions : t.account = "bank" })

\* the trigger days of a pot in a month, read off the calendar
TriggerDaysOf(potId, y, m) ==
    { n \in 1..CalendarDays(y, m) : IsTriggerDay(potId, Date(y, m, n)) }

\* a month of the simulation all of whose days are simulated as future days, at its
\* last day
CompleteFutureMonth ==
    /\ ghost.on
    /\ ghost.whole
    /\ ghost.future
    /\ ghost.day.d = CalendarDays(ghost.day.y, ghost.day.m)

\* C9: in every complete future month of a simulation each pot is drawn once on each
\* of its trigger days, by its resolved monthly limit divided by the number of its
\* trigger days in that month, so that the month's withdrawals of the pot sum to the
\* limit.
C9_PotsDrawnEvenly ==
    \A p \in PotIds :
        LET days  == TriggerDaysOf(p, ghost.day.y, ghost.day.m)
            limit == GetPotLimit(simIn.potConfigs, p, ghost.day)
        IN  /\ (ghost.on /\ ghost.whole /\ ghost.future) =>
                   ghost.last[p] = IF ghost.day.d \in days
                                   THEN limit \div Cardinality(days) ELSE 0
            /\ CompleteFutureMonth =>
                   /\ ghost.draws[p] = Cardinality(days)
                   /\ ghost.drawn[p] = limit

\* the last day of a complete future month with five Fridays, in the chart and with
\* a pot limit the user has set
C9_Witness ==
    /\ CompleteFutureMonth
    /\ simIn.kind = "chart"
    /\ simIn.potConfigs # {}
    /\ ghost.draws["pot_we"] = 5
    /\ ghost.draws["pot_smoke"] = 4
    /\ ghost.drawn["pot_smoke"] = GetPotLimit(simIn.potConfigs, "pot_smoke", ghost.day)
    /\ ghost.drawn["pot_we"] > 0

\* the last simulated day of permanentPositiveForecast, as a day count
LastSimDayNumber == DaysFromCivil(today.y, today.m, today.d) + SIM_DAYS

C11_NonNegativeStartIsImmediate ==
    (simIn.kind = "perm" /\ sim.pc = "done" /\ BankBalance(transactions) >= 0) =>
        (sim.result.status = "positive" /\ sim.result.date = "Sofort")

\* C12: the simulation is deterministic in its declared inputs: a second run with the
\* same transactions, rules, pot limits, start date and end date, made at another
\* time of the same day, has the same balance after every simulated day.
C12_SameSeriesAtAnyTime ==
    ghost.on => ghost.twin = sim.balance

\* C13: the day loop of a simulation makes at most about 1825 iterations (the 5-year
\* horizon; the chart starts at the first day of today's month) whatever end date is
\* requested, and none when the end date is before the start date: the series is
\* then empty.
C13_LoopBounded ==
    /\ simIn.kind \in {"perm", "chart"} => sim.i <= SIM_DAYS + CalendarDays(today.y, today.m)
    /\ ( /\ simIn.kind = "chart"
         /\ sim.pc = "done"
         /\ DateLess(simIn.forecastDate, Date(today.y, today.m, 1)) )
       => sim.i = 0

\* a step of handleFileChange on a file of the given kind
ImportStepOf(src) ==
    /\ userOps' = userOps + 1
    /\ lastPass'.op = "import"
    /\ lastPass'.src = src

\* C14: an import whose parsed root is not an array is rejected as a whole: the
\* store's import operation is not invoked, an error status is shown, and the
\* transactions and the rules are exactly as before.
C14_NonArrayImportRejected ==
    [][ ImportStepOf("object") =>
          /\ ~lastPass'.invoked
          /\ settingsStatus'.type = "error"
          /\ txStore' = txStore
          /\ ruleStore' = ruleStore
          /\ transactions' = transactions
          /\ recurringRules' = recurringRules ]_vars

\* a non-array file has been picked while the store held transactions and rules
C14_Witness ==
    /\ lastPass.op = "import"
    /\ lastPass.src = "object"
    /\ settingsStatus.type = "error"
    /\ txStore # {}
    /\ ruleStore # {}

\* C15: exporting the transactions and importing the exported file leaves the store
\* holding exactly the exported records: none lost, none added, none altered.
C15_ExportImportRoundTrip ==
    [][ ImportStepOf("export") =>
          /\ lastPass'.invoked
          /\ txStore' = transactions
          /\ transactions' = transactions
          /\ settingsStatus'.type = "success" ]_vars

\* an export has been imported that held rule instances, one-off transactions and a
\* transaction the user had added
C15_Witness ==
    /\ lastPass.op = "import"
    /\ lastPass.src = "export"
    /\ \E t \in txStore : t.recurringId # NoId
    /\ \E t \in txStore : t.recurringId = NoId /\ t.category = "Startsaldo"
    /\ \E t \in txStore : t.category = "Miete"

(***************************************************************************)
(* db.ts, init() await by await.  Every await of the three passes is a     *)
(* point where the call yields: another init() on the same database (a     *)
(* second tab) runs in between, and a rejected request ends the call, for  *)
(* nothing in init() or below it catches.  inits[c] is call c: where it    *)
(* stands, and what it has read so far.                                    *)
(***************************************************************************)
MaxInits == 2
MaxFailedInits == 1
\* how often a call that is under way is overtaken by another one
MaxSwitches == 2

\* crypto.randomUUID() of call c: an id no other call and no other slot gets
IdOf(c, slot) == c * 1000 + slot

NewInit == [pc |-> "count", k |-> 0, rules |-> {}, allTx |-> {}, at |-> "", rule |-> NoId,
            turn |-> FALSE, sw |-> 0]

initIdle == <<transactions, recurringRules, undoStack, pc, simDate, today, nextId,
              userOps, session, lastPass, settingsStatus, simVars>>

Ended == {"failed", "done"}

RECURSIVE SwitchesUpTo(_)
SwitchesUpTo(c) == IF c = 0 THEN 0 ELSE inits[c].sw + SwitchesUpTo(c - 1)

\* call c continues while another call, not ended, was the last to run
Overtakes(c) ==
    \E d \in DOMAIN inits : d # c /\ inits[d].turn /\ inits[d].pc \notin Ended

CanRun(c) == Overtakes(c) => SwitchesUpTo(Len(inits)) < MaxSwitches

\* call c has run one await further and stands at rec
Resume(c, rec) ==
    inits' = [d \in DOMAIN inits |->
                IF d = c
                THEN [rec EXCEPT !.turn = TRUE,
                                 !.sw = IF Overtakes(c) THEN @ + 1 ELSE @]
                ELSE [inits[d] EXCEPT !.turn = FALSE]]

\* the rules of the loop of a call that reach the insert, and the k-th of them; the
\* loop takes them in the order getAll returns them, the order of their ids
NeedOf(call) == NeedsInstance(call.rules, call.allTx, simDate)

NextRule(call) ==
    CHOOSE r \in NeedOf(call) : Cardinality({q \in NeedOf(call) : q.id < r.id}) = call.k

\* const rulesCount = await this.countRules(); if (rulesCount > 0) return;
CountRules ==
    \E c \in DOMAIN inits :
        /\ inits[c].pc = "count"
        /\ CanRun(c)
        /\ Resume(c, [inits[c] EXCEPT !.pc = IF Cardinality(ruleStore) > 0
                                              THEN "getAllRules" ELSE "seedTx",
                                       !.k = 0])
        /\ UNCHANGED <<txStore, ruleStore, initIdle>>

\* await this.addTransaction({...}): the five seed transactions, one await each
AddSeedTransaction ==
    \E c \in DOMAIN inits :
        /\ inits[c].pc = "seedTx"
        /\ CanRun(c)
        /\ \E tx \in SeedTransactions(simDate, IdOf(c, 1)) :
             /\ tx.id = IdOf(c, 1) + inits[c].k
             /\ txStore' = StoreAdd(txStore, tx)
        /\ Resume(c, IF inits[c].k + 1 < Cardinality(SeedTransactions(simDate, IdOf(c, 1)))
                     THEN [inits[c] EXCEPT !.k = @ + 1]
                     ELSE [inits[c] EXCEPT !.pc = "seedRule", !.k = 0])
        /\ UNCHANGED <<ruleStore, initIdle>>

\* for (const r of initialRules) await this.addRule({...r, id: crypto.randomUUID()})
AddSeedRule ==
    \E c \in DOMAIN inits :
        /\ inits[c].pc = "seedRule"
        /\ CanRun(c)
        /\ \E rule \in SeedRules(IdOf(c, 6)) :
             /\ rule.id = IdOf(c, 6) + inits[c].k
             /\ ruleStore' = StoreAdd(ruleStore, rule)
        /\ Resume(c, IF inits[c].k + 1 < Len(InitialRules)
                     THEN [inits[c] EXCEPT !.k = @ + 1]
                     ELSE [inits[c] EXCEPT !.pc = "getAllRules", !.k = 0])
        /\ UNCHANGED <<txStore, initIdle>>

\* processRecurringRules: const rules = await this.getAllRules()
GetAllRules ==
    \E c \in DOMAIN inits :
        /\ inits[c].pc = "getAllRules"
        /\ CanRun(c)
        /\ Resume(c, [inits[c] EXCEPT !.pc = "getAllTransactions", !.rules = ruleStore])
        /\ UNCHANGED <<txStore, ruleStore, initIdle>>

\* processRecurringRules: const allTx = await this.getAllTransactions(), read once
\* before the loop
GetAllTransactions ==
    \E c \in DOMAIN inits :
        /\ inits[c].pc = "getAllTransactions"
        /\ CanRun(c)
        /\ LET call == [inits[c] EXCEPT !.allTx = txStore]
           IN  Resume(c, [call EXCEPT !.pc = IF NeedOf(call) = {} THEN "migrationRead"
                                              ELSE "loop",
                                       !.k = 0])
        /\ UNCHANGED <<txStore, ruleStore, initIdle>>

\* the loop body of processRecurringRules: await this.addTransaction(newTx)
AddInstance ==
    \E c \in DOMAIN inits :
        /\ inits[c].pc = "loop"
        /\ CanRun(c)
        /\ txStore' = StoreAdd(txStore, NewInstance(NextRule(inits[c]), simDate,
                                                    IdOf(c, 100 + inits[c].k)))
        /\ Resume(c, IF inits[c].k + 1 < Cardinality(NeedOf(inits[c]))
                     THEN [inits[c] EXCEPT !.k = @ + 1]
                     ELSE [inits[c] EXCEPT !.pc = "migrationRead", !.k = 0])
        /\ UNCHANGED <<ruleStore, initIdle>>

\* runMigrations: const txs = await this.getAllTransactions();
\* const rules = await this.getAllRules()
MigrationRead ==
    \E c \in DOMAIN inits :
        /\ inits[c].pc = "migrationRead"
        /\ CanRun(c)
        /\ Resume(c, [inits[c] EXCEPT !.pc = "migrate", !.allTx = txStore,
                                       !.rules = ruleStore])
        /\ UNCHANGED <<txStore, ruleStore, initIdle>>

\* runMigrations: the one readwrite transaction; it puts and adds the records the
\* steps changed in the list the call has read, and deletes the Geschenke rule
Migrate ==
    \E c \in DOMAIN inits :
        /\ inits[c].pc = "migrate"
        /\ CanRun(c)
        /\ \E giftRule \in (IF GiftRules(inits[c].rules) = {} THEN {None}
                            ELSE GiftRules(inits[c].rules)) :
             ruleStore' = IF giftRule = None THEN ruleStore
                          ELSE StoreDelete(ruleStore, giftRule.id)
        /\ LET txs  == inits[c].allTx
               txs1 == ZeroBills(txs)
           IN  \E giftTx \in FindFirst(GiftCandidates(txs1)) :
                 LET txs2 == FixGift(txs1, giftTx, IdOf(c, 200))
                     txs3 == AddRefund(txs2, IdOf(c, 201))
                 IN  \E startTx \in FindFirst({ t \in txs3 : t.category = "Startsaldo" }) :
                       LET written == ForceBalance(txs3, startTx) \ txs
                       IN  txStore' = {t \in txStore : t.id \notin Ids(written)}
                                          \cup written
        /\ Resume(c, [inits[c] EXCEPT !.pc = "done"])
        /\ UNCHANGED initIdle

\* a write request is rejected (quota exceeded, transaction aborted): the await
\* throws, nothing catches, the call ends where it stands and init() never resolves
WriteFails ==
    \E c \in DOMAIN inits :
        /\ c <= MaxFailedInits
        /\ inits[c].pc \in {"seedTx", "seedRule", "loop", "migrate"}
        /\ CanRun(c)
        /\ Resume(c, [inits[c] EXCEPT !.pc = "failed", !.at = inits[c].pc,
                                       !.rule = IF inits[c].pc = "loop"
                                                THEN NextRule(inits[c]).id ELSE NoId])
        /\ UNCHANGED <<txStore, ruleStore, initIdle>>

\* the page is loaded again after init() has ended: the next call
NextInit ==
    /\ inits # <<>>
    /\ inits[Len(inits)].pc \in Ended
    /\ Len(inits) < MaxInits
    /\ inits' = Append(inits, NewInit)
    /\ UNCHANGED <<txStore, ruleStore, initIdle>>

InitsOn(calls) ==
    /\ txStore = {}
    /\ ruleStore = {}
    /\ transactions = {}
    /\ recurringRules = {}
    /\ undoStack = <<>>
    /\ pc = "start"
    /\ simDate = SIM_DATE
    /\ today = SIM_DATE
    /\ nextId = 1
    /\ userOps = 0
    /\ session = 1
    /\ lastPass = [op |-> "open", created |-> {}]
    /\ settingsStatus = NoStatus
    /\ inits = calls
    /\ simIn = [kind |-> "none"]
    /\ sim = [pc |-> "idle"]
    /\ ghost = [on |-> FALSE]
    /\ potStore = {}

\* one init() at a time on a new database; a write of the first may fail
FailInit == InitsOn(<<NewInit>>)

FailNext ==
    \/ CountRules
    \/ AddSeedTransaction
    \/ AddSeedRule
    \/ GetAllRules
    \/ GetAllTransactions
    \/ AddInstance
    \/ MigrationRead
    \/ Migrate
    \/ WriteFails
    \/ NextInit

SpecFail == FailInit /\ [][FailNext]_vars

\* two init() calls under way on the same new database
OverlapInit == InitsOn(<<NewInit, NewInit>>)

OverlapNext ==
    \/ CountRules
    \/ AddSeedTransaction
    \/ AddSeedRule
    \/ GetAllRules
    \/ GetAllTransactions
    \/ AddInstance
    \/ MigrationRead
    \/ Migrate

SpecOverlap == OverlapInit /\ [][OverlapNext]_vars

\* what must not be there twice: a seed transaction, a seed rule, the instance of a
\* rule in a month
SeedCategories == { tx.category : tx \in SeedTransactions(SIM_DATE, 1) }

NoDuplicateSeedTx ==
    \A cat \in SeedCategories :
        Cardinality({ t \in txStore : t.category = cat /\ ~t.isRecurring }) <= 1

NoDuplicateRule ==
    \A i \in 1..Len(InitialRules) :
        Cardinality({ r \in ruleStore : r.category = InitialRules[i].category }) <= 1

NoDuplicateInstance ==
    \A t, u \in txStore :
        (t.recurringId # NoId /\ t.recurringId = u.recurringId
            /\ StartsWith(u.date, MonthStr(t.date))) => t.id = u.id

\* C16: when the write of one rule's instance fails, the pass still creates the
\* instance of every other rule that needed one
C16_FailedWriteDoesNotBlockOthers ==
    \A c \in DOMAIN inits :
        (inits[c].pc = "failed" /\ inits[c].at = "loop") =>
            \A rule \in NeedOf(inits[c]) :
                rule.id # inits[c].rule => ExistsInstance(rule, txStore, MonthStr(simDate))

\* C17: after an init() that a failed write interrupted and a following init() that
\* completed, no seed transaction, no rule and no instance of a rule and month is
\* there twice
C17_InterruptedInitIsRedriveable ==
    (/\ Len(inits) = 2
     /\ inits[1].pc = "failed"
     /\ inits[2].pc = "done")
        => NoDuplicateSeedTx /\ NoDuplicateRule /\ NoDuplicateInstance

\* C18: when two init() calls have overlapped and both have ended, no rule has two
\* instances for the month and no seed record is there twice
C18_OverlappingInitsDoNotDuplicate ==
    (/\ Len(inits) = 2
     /\ \A c \in DOMAIN inits : inits[c].pc = "done"
     /\ \E c \in DOMAIN inits : inits[c].sw > 0)
        => NoDuplicateInstance /\ NoDuplicateSeedTx /\ NoDuplicateRule

\* a step of handleUndo: no other step sets lastPass to undo and leaves the Settings
\* status and the count of user actions alone
UndoStepOf(kinds) ==
    /\ pc = "ready"
    /\ Len(undoStack) > 0
    /\ undoStack[Len(undoStack)].kind \in kinds
    /\ lastPass'.op = "undo"
    /\ settingsStatus' = settingsStatus
    /\ userOps' = userOps
    /\ pc' = "ready"

\* C19: an update or a delete of a transaction id that is not in the store fails
\* towards the caller (the undo step stays on the stack) and leaves the store as it is
C19_UnknownIdIsNotFound ==
    [][(/\ UndoStepOf({"add", "update"})
        /\ undoStack[Len(undoStack)].tx.id \notin Ids(txStore))
          => (txStore' = txStore /\ undoStack' = undoStack)]_vars

(***************************************************************************)
(* db.ts, init on a database an earlier release has written: the upgrade   *)
(* handler creates the stores that are missing and keeps the others, so    *)
(* the rules of the earlier release are still there.  runMigrations looks  *)
(* for one of them, the recurring rule of category Geschenke.              *)
(***************************************************************************)
LegacyGiftRule == Rule(900, "expense", "Geschenke", 2500, "bank", 1, TRUE)

UpgradeInit ==
    /\ txStore = SeedTransactions(SIM_DATE, 1)
    /\ ruleStore = SeedRules(6) \cup {LegacyGiftRule}
    /\ transactions = {}
    /\ recurringRules = {}
    /\ undoStack = <<>>
    /\ pc = "start"
    /\ simDate = SIM_DATE
    /\ today = SIM_DATE
    /\ nextId = 6 + Len(InitialRules)
    /\ userOps = 0
    /\ session = 1
    /\ lastPass = [op |-> "open", created |-> {}]
    /\ NoSimulation

SpecUpgrade == UpgradeInit /\ [][Next]_vars

CompletedBankUpTo(txs, date) ==
    { tx \in txs : /\ tx.status = "completed"
                   /\ tx.account = "bank"
                   /\ ~DateLess(date, tx.date) }

\* fullDate of the point the chart loop has pushed last
LastFullDate == ToISODate(LocalMidnight(ghost.day, simIn.off))

\* C21: the value of the series at a day that is not after today is the sum of the
\* signed amounts of the completed bank transactions dated on or before that day
C21_PastSeriesIsCompletedBankSum ==
    (simIn.kind = "chart" /\ sim.i > 0 /\ ~ghost.future) =>
        sim.balance = SumSigned(CompletedBankUpTo(transactions, LastFullDate))

\* the day of the month a rule falls on in the month of d
EffectiveDay(rule, d) == Min(rule.dayOfMonth, CalendarDays(d.y, d.m))

\* C22: on every future day the simulations walk, the rules applied are the active
\* bank rules, not suppressed for the month, whose effective day
\* min(dayOfMonth, last day of the month) is that day
C22_RulesApplyOnEffectiveDay ==
    (sim.i > 0 /\ ghost.future) =>
        ghost.rules = { rule.id : rule \in
                          { r \in recurringRules :
                              /\ r.active
                              /\ r.account = "bank"
                              /\ ~Suppressed(r.category, MonthStr(ghost.day))
                              /\ EffectiveDay(r, ghost.day) = ghost.day.d } }

\* C23: on a future day the simulations apply no one-off bank transaction that is
\* already completed
C23_CompletedOneOffNotApplied ==
    (sim.i > 0 /\ ghost.future) =>
        \A tx \in transactions : tx.id \in ghost.oneOff => tx.status # "completed"

\* C30: on every future day, the balance of the permanently-non-negative simulation
\* is the balance of the chart series of that day
C30_SimulationsAgree ==
    (simIn.kind = "perm" /\ sim.i > 0) => sim.balance = ghost.other

(***************************************************************************)
(* Dashboard.tsx, savePotLimit: the user edits the limit of a pot.         *)
(* dbService.savePotConfig and getPotConfigs are not part of the sources;  *)
(* they are taken to be the put by key and the read of all records of a    *)
(* store of budget overrides.                                              *)
(***************************************************************************)
\* the key of a PotConfig: `${potId}_${monthStr}` or `${potId}_default`
PotConfigKey(config) == <<config.potId, config.month>>

\* dbService.savePotConfig(config)
SavePotConfig(store, config) ==
    { c \in store : PotConfigKey(c) # PotConfigKey(config) } \cup {config}

\* the limits the user types and the days on which the Dashboard is open
PotLimits == {0, 8000}
PotDates == {SIM_DATE, Date(2025, 12, 17)}
\* the months whose limits are looked at
PotMonths == { MonthStr(d) : d \in PotDates } \cup {[y |-> 2026, m |-> 1]}

PotsInit ==
    /\ txStore = FirstSessionStore
    /\ ruleStore = FirstSessionRules
    /\ transactions = txStore
    /\ recurringRules = ruleStore
    /\ undoStack = <<>>
    /\ pc = "ready"
    /\ simDate = SIM_DATE
    /\ today \in PotDates
    /\ nextId = 300
    /\ userOps = 0
    /\ session = 1
    /\ lastPass = [op |-> "refresh", created |-> {}]
    /\ settingsStatus = NoStatus
    /\ inits = NoInits
    /\ simIn = [kind |-> "none"]
    /\ sim = [pc |-> "idle"]
    /\ ghost = [on |-> FALSE]
    /\ potStore \in SimPotConfigs

\* savePotLimit, with the edit field and the 'also as default' box as the user set them
SavePotLimit ==
    \E editingPotId \in PotIds, newLimit \in PotLimits, savePotFuture \in BOOLEAN :
      LET monthStr == MonthStr(today)
          saved1   == SavePotConfig(potStore, [potId |-> editingPotId, limit |-> newLimit,
                                               month |-> monthStr])
          saved2   == IF savePotFuture
                      THEN SavePotConfig(saved1, [potId |-> editingPotId, limit |-> newLimit,
                                                  month |-> NoMonth])
                      ELSE saved1
      IN  /\ pc = "ready"
          /\ userOps < MaxUserOps
          /\ userOps' = userOps + 1
          /\ potStore' = saved2
          /\ lastPass' = [op |-> "pot", created |-> {}, potId |-> editingPotId,
                          limit |-> newLimit, future |-> savePotFuture]
          /\ UNCHANGED <<txStore, ruleStore, transactions, recurringRules, undoStack, pc,
                         simDate, today, nextId, session, settingsStatus, inits,
                         simIn, sim, ghost>>

PotsNext == SavePotLimit

SpecPots == PotsInit /\ [][PotsNext]_vars

\* the limit of a pot in a month, as a date of that month gives it
LimitOf(store, potId, monthStr) == GetPotLimit(store, potId, Date(monthStr.y, monthStr.m, 1))

HasSpecific(store, potId, monthStr) ==
    \E c \in store : c.potId = potId /\ c.month = monthStr

HasDefault(store, potId) == \E c \in store : c.potId = potId /\ c.month = NoMonth

\* C24: after a limit is saved for a pot in month M, the pot's limit in M is the
\* saved one, whatever default there is; in a month without an override of its own
\* the limit is the default override's if there is one, else the baseline; and a
\* save without 'also as default' changes the limit of no other month
C24_PotLimitResolution ==
    [][(userOps' = userOps + 1 /\ lastPass'.op = "pot") =>
         /\ LimitOf(potStore', lastPass'.potId, MonthStr(today)) = lastPass'.limit
         /\ \A p \in PotIds, monthStr \in PotMonths :
              ~HasSpecific(potStore', p, monthStr) =>
                  LimitOf(potStore', p, monthStr) =
                      IF HasDefault(potStore', p)
                      THEN (CHOOSE c \in potStore' : c.potId = p /\ c.month = NoMonth).limit
                      ELSE (CHOOSE q \in DEFAULT_BUDGET_POTS : q.id = p).limit
         /\ ~lastPass'.future =>
              \A p \in PotIds, monthStr \in PotMonths :
                  monthStr # MonthStr(today) =>
                      LimitOf(potStore', p, monthStr) = LimitOf(potStore, p, monthStr)
      ]_vars

\* a month-specific limit stands beside a different default of the same pot, and
\* another month still has the default
C24_Witness ==
    /\ lastPass.op = "pot"
    /\ ~lastPass.future
    /\ HasDefault(potStore, lastPass.potId)
    /\ HasSpecific(potStore, lastPass.potId, MonthStr(today))
    /\ \E monthStr \in PotMonths :
         LimitOf(potStore, lastPass.potId, monthStr)
             # LimitOf(potStore, lastPass.potId, MonthStr(today))

(***************************************************************************)
(* db.ts, init(): the event loop runs every continuation whose request has *)
(* completed, so a call that can take its next step takes it.              *)
(***************************************************************************)
InitProgress ==
    \/ CountRules
    \/ AddSeedTransaction
    \/ AddSeedRule
    \/ GetAllRules
    \/ GetAllTransactions
    \/ AddInstance
    \/ MigrationRead
    \/ Migrate

SpecFailFair == FailInit /\ [][FailNext]_vars /\ WF_vars(InitProgress)

\* C25: every init() call that has started eventually settles: its promise is
\* resolved (nothing on these paths rejects it)
C25_InitSettles ==
    \A c \in 1..MaxInits :
        (c \in DOMAIN inits) ~> (c \in DOMAIN inits /\ inits[c].pc = "done")

\* C26: when init() has completed and the store holds a Startsaldo transaction, the
\* completed bank transactions sum to the target balance and Startsaldo is completed
C26_InitForcesTargetBalance ==
    (lastPass.op = "migrate" /\ \E t \in txStore : t.category = "Startsaldo") =>
        /\ BankBalance(txStore) = TARGET_BALANCE
        /\ \A t \in txStore : t.category = "Startsaldo" => t.status = "completed"

\* C27: an undo that succeeds (the step leaves the stack) leaves the transaction
\* store exactly as it was before the action the step was recorded for
C27_UndoRestoresPriorState ==
    [][(UndoStepOf({"add", "update", "delete", "rule"}) /\ undoStack' # undoStack)
          => txStore' = undoStack[Len(undoStack)].before]_vars

\* C28: importData is all or nothing: when it rejects, the transaction store holds
\* what it held before the call; otherwise it holds exactly the records of the data
C28_ImportAllOrNothing ==
    [][(userOps' = userOps + 1 /\ lastPass'.op = "import" /\ lastPass'.invoked) =>
          LET json == FileContent(lastPass'.src)
          IN  IF settingsStatus'.type = "error"
              THEN txStore' = txStore
              ELSE txStore' = { FromJSON(json.items[i]) : i \in 1..Len(json.items) }]_vars

(***************************************************************************)
(* App.tsx, handleAddTransaction when a write is rejected.  addRule and    *)
(* addTransaction each open a transaction of their own on one store; the   *)
(* handler awaits them one after the other and catches nothing.            *)
(***************************************************************************)
\* handleAddTransaction whose addTransaction rejects (quota exceeded, transaction
\* aborted): the await throws, refreshData and addUndoStep are not reached; with a
\* paired rule, addRule has run and committed before
AddTransactionFails ==
    \E amount \in FormAmounts, type \in FormTypes, category \in FormCategories,
       date \in FormDates, account \in {"bank", "cash"}, isRecurring \in BOOLEAN :
      LET ruleId  == nextId + 1
          newRule == Rule(ruleId, type, category, amount, account, FormDayOfMonth(date), TRUE)
      IN  /\ pc = "ready"
          /\ userOps < MaxUserOps
          /\ userOps' = userOps + 1
          /\ lastPass' = [op |-> "addFailed", created |-> {}]
          /\ ruleStore' = IF isRecurring THEN StoreAdd(ruleStore, newRule) ELSE ruleStore
          /\ nextId' = nextId + (IF isRecurring THEN 2 ELSE 1)
          /\ UNCHANGED <<txStore, transactions, recurringRules, undoStack>>
          /\ UNCHANGED <<pc, simDate, today, session>>
          /\ UNCHANGED <<settingsStatus, inits, simVars>>

AddNext ==
    \/ Next
    \/ AddTransactionFails

SpecAdd == Init /\ [][AddNext]_vars

\* C29: a handleAddTransaction call stores a new rule only together with a new
\* transaction linked to it (recurringId = rule.id): both are stored or neither is
C29_AddWithRuleIsAtomic ==
    [][(userOps' = userOps + 1 /\ lastPass'.op \in {"add", "addFailed"}) =>
          \A rule \in ruleStore' \ ruleStore :
              \E tx \in txStore' \ txStore : tx.recurringId = rule.id]_vars

====
